---- MODULE Spec2Model ----
(***************************************************************************)
(* Model of sma_data_pwa.  The dashboard client (src/public/app.js): the   *)
(* refresh cycle fetchData and the three transforms it routes payloads to  *)
(* (updateMetrics, updateTimeSeries, updateYearlyYield), writing into the  *)
(* chart objects and the DOM elements the page owns.  The gateway          *)
(* (src/pwa/src/index.ts): the access gate, the static and page routes and *)
(* the API proxy routes, as one request gives one response.                *)
(*                                                                         *)
(* Numbers.  Upstream readings are rationals k / PowerScale (k an integer).*)
(* Gauge percentages are exact rationals n / maxPower, kept as their       *)
(* numerator n; the mean of the yearly deltas is the exact rational        *)
(* num / den.  The rounding error of IEEE-754 doubles is not modelled.     *)
(***************************************************************************)
EXTENDS Integers, Sequences, FiniteSets, TLC

VARIABLES
    pc,                   \* per refresh cycle: where its async fetchData stands
    errorContainer,       \* innerHTML of #errorContainer ("" when empty)
    powerCardSpinner,     \* 'active' class of #powerCardSpinner
    yieldCardSpinner,     \* 'active' class of #yieldCardSpinner
    powerChartOverlay,    \* [active, content] of #powerChartOverlay
    yearlyChartOverlay,   \* [active, content] of #yearlyChartOverlay
    timestamp,            \* #timestamp: 0 = never refreshed, c = written by cycle c
    powerValue,           \* #powerValue text: the rounded watts, or Undef
    yieldValue,           \* #yieldValue text: the rounded kWh, or Undef
    powerGaugeChart,      \* powerGaugeChart.data.datasets[0].data
    powerTimeSeriesChart, \* [labels, data] of powerTimeSeriesChart
    yearlyYieldChart,     \* [labels, datasets] of yearlyYieldChart
    currentYear,          \* the wall clock's calendar year
    log,                  \* per cycle: the failures it met, the banners it wrote (history)
    applied,              \* per sink: the last payload a transform wrote from (history)
    lastCall,             \* the last transform called on its own: its argument and
                          \* the sinks as they stood before it (history)
    exchange              \* the gateway's last request, its environment and the
                          \* response it was answered with (history)

vars == <<pc, errorContainer, powerCardSpinner, yieldCardSpinner,
          powerChartOverlay, yearlyChartOverlay, timestamp, powerValue,
          yieldValue, powerGaugeChart, powerTimeSeriesChart, yearlyYieldChart,
          currentYear, log, applied, lastCall, exchange>>

domVars == <<errorContainer, powerCardSpinner, yieldCardSpinner, timestamp>>
metricVars == <<powerValue, yieldValue, powerGaugeChart>>
timeSeriesVars == <<powerTimeSeriesChart, powerChartOverlay>>
yearlyVars == <<yearlyYieldChart, yearlyChartOverlay>>

-----------------------------------------------------------------------------
(* Bounds of the model *)

MaxCycles == 2        \* refresh cycles that may overlap
PowerScale == 2       \* readings are multiples of 1/PowerScale watt
MaxReading == 5000    \* readings range over -MaxReading .. MaxReading watts
MaxRecords == 3       \* longest yearly payload enumerated in full
MaxYears == 3         \* calendar years the enumerated yearly records carry
MaxSamples == 3       \* longest today payload enumerated in full
MaxHeader == 3        \* chunks of the longest Authorization header

-----------------------------------------------------------------------------
(* JavaScript values *)

Undef == [t |-> "undef"]                 \* undefined or null (alike under ?? )
Num(n) == [t |-> "num", v |-> n]         \* a number
Str(s) == [t |-> "str", s |-> s]         \* a string

Max(a, b) == IF a >= b THEN a ELSE b
Min(a, b) == IF a <= b THEN a ELSE b

\* Math.round(n / d) for d > 0: the nearest integer, halves towards +infinity
MathRound(n, d) == (2 * n + d) \div (2 * d)

-----------------------------------------------------------------------------
(* updateMetrics *)

maxPower == 4500

\* powerPercentage that wraps at 100 (% 100 for Math.min(..., 100))
powerPercentage_wrapped(power) == (power * 100) % (100 * maxPower)

\* powerPercentage without Math.min(..., 100)
powerPercentage_unclamped(power) == power * 100

\* powerPercentage (as numerator over maxPower) of the rounded power
powerPercentage(power) == Min(power * 100, 100 * maxPower)

\* the four slices [normal, warning, critical, remaining], numerators over maxPower
GaugeBands(power) ==
    LET pct == powerPercentage(power)
        normalPercentage ==
            IF pct <= 60 * maxPower THEN pct ELSE 60 * maxPower
        warningPercentage ==
            IF pct <= 60 * maxPower THEN 0
            ELSE IF pct <= 80 * maxPower THEN pct - 60 * maxPower
            ELSE 20 * maxPower
        criticalPercentage ==
            IF pct <= 80 * maxPower THEN 0 ELSE pct - 80 * maxPower
        remaining == 100 * maxPower - pct
    IN  <<normalPercentage, warningPercentage, criticalPercentage, remaining>>

\* what updateMetrics reads from the payload: data.power || 0, data.total_yield || 0
OrZero(val) == IF val = Undef THEN 0 ELSE val.v

updateMetricsThrows(data) == data = Undef   \* data.power of null: TypeError

\* updateMetrics(data): the two texts and the gauge slices, from one payload
\* whose numbers are in units of 1/PowerScale
updateMetrics(data) ==
    LET power == MathRound(OrZero(data.power), PowerScale)
        yield_ == MathRound(OrZero(data.total_yield), PowerScale)
    IN  /\ powerValue' = Num(power)
        /\ yieldValue' = Num(MathRound(yield_, 1000))
        /\ powerGaugeChart' = GaugeBands(power)

-----------------------------------------------------------------------------
(* updateTimeSeries *)

\* The permutation that stable-sorts keys[1..n] ascending: Array.prototype.sort
\* with a consistent numeric comparator (stable since ES2019).
RECURSIVE SortPerm(_, _)
SortPerm(keys, n) ==
    IF n = 0 THEN <<>>
    ELSE LET p == SortPerm(keys, n - 1)
             k == Cardinality({i \in 1..Len(p) : keys[p[i]] <= keys[n]})
         IN  SubSeq(p, 1, k) \o <<n>> \o SubSeq(p, k + 1, Len(p))

\* toLocaleTimeString('en-US', {hour: '2-digit', minute: '2-digit'}) of a unix
\* time in seconds, the local zone taken as UTC: hh:mm AM/PM
TimeLabel(ts) ==
    LET minuteOfDay == (ts \div 60) % (24 * 60)
        h == minuteOfDay \div 60
    IN  [hh |-> IF h % 12 = 0 THEN 12 ELSE h % 12,
         mm |-> minuteOfDay % 60,
         pm |-> h >= 12]

\* Array.isArray(data) && data.length > 0
IsNonEmptyArray(data) == "items" \in DOMAIN data /\ Len(data.items) > 0

\* sortedData with the sort left out
sortedData_asGiven(data) == data.items

\* [...data].sort((a, b) => a.TimeStamp - b.TimeStamp)
sortedData(data) ==
    LET items == data.items
        perm == SortPerm([i \in 1..Len(items) |-> items[i].TimeStamp], Len(items))
    IN  [i \in 1..Len(items) |-> items[perm[i]]]

\* updateTimeSeries that writes the empty series instead of returning early
updateTimeSeries_emptySeries(data) ==
    IF ~IsNonEmptyArray(data)
    THEN /\ powerTimeSeriesChart' = [labels |-> <<>>, data |-> <<>>]
         /\ powerChartOverlay' = [powerChartOverlay EXCEPT !.active = FALSE]
    ELSE LET sorted == sortedData(data)
         IN  /\ powerTimeSeriesChart' =
                    [labels |-> [i \in 1..Len(sorted) |-> TimeLabel(sorted[i].TimeStamp)],
                     data |-> [i \in 1..Len(sorted) |->
                                  MathRound(OrZero(sorted[i].Power), PowerScale)]]
             /\ powerChartOverlay' = [powerChartOverlay EXCEPT !.active = FALSE]

updateTimeSeries(data) ==
    IF ~IsNonEmptyArray(data)
    THEN /\ powerChartOverlay' = [active |-> TRUE, content |-> "no-data"]
         /\ UNCHANGED powerTimeSeriesChart
    ELSE LET sorted == sortedData(data)
         IN  /\ powerTimeSeriesChart' =
                    [labels |-> [i \in 1..Len(sorted) |-> TimeLabel(sorted[i].TimeStamp)],
                     data |-> [i \in 1..Len(sorted) |->
                                  MathRound(OrZero(sorted[i].Power), PowerScale)]]
             /\ powerChartOverlay' = [powerChartOverlay EXCEPT !.active = FALSE]

-----------------------------------------------------------------------------
(* updateYearlyYield *)

\* a ?? b
Coalesce(a, b) == IF a # Undef THEN a ELSE b

\* one element of the normalized array, before the filter
NormalizeItem(item) ==
    LET year == Coalesce(item.year, Coalesce(item.Year,
                    Coalesce(item.year_value, item.yearVal)))
        yieldWh == Coalesce(item.yield, Coalesce(item.Yield, Coalesce(item.total,
                    Coalesce(item.Total, Coalesce(item.total_yield, Num(0))))))
    IN  [year |-> Coalesce(year, Str("-")),
         kwh |-> MathRound(yieldWh.v, 1000)]

KeepEntry(entry) == entry.year # Str("-")

normalized(data) ==
    SelectSeq([i \in 1..Len(data.items) |-> NormalizeItem(data.items[i])], KeepEntry)

\* Number(entry.year) of a numeric year
NumberOf(val) == val.v

\* normalized.sort((a, b) => Number(a.year) - Number(b.year))
SortByYear(entries) ==
    LET perm == SortPerm([i \in 1..Len(entries) |-> NumberOf(entries[i].year)],
                         Len(entries))
    IN  [i \in 1..Len(entries) |-> entries[perm[i]]]

\* Differences without Math.max(0, ...)
Differences_unclamped(sorted) ==
    [idx \in 1..Len(sorted) |->
        IF idx = 1 THEN sorted[idx].kwh
        ELSE sorted[idx].kwh - sorted[idx - 1].kwh]

Differences(sorted) ==
    [idx \in 1..Len(sorted) |->
        IF idx = 1 THEN sorted[idx].kwh
        ELSE Max(0, sorted[idx].kwh - sorted[idx - 1].kwh)]

RECURSIVE Sum(_)
Sum(s) == IF Len(s) = 0 THEN 0 ELSE s[1] + Sum(Tail(s))

\* FullYearDifferences that keeps the current year
RECURSIVE FullYearDifferences_withCurrent(_, _, _, _)
FullYearDifferences_withCurrent(differences, sorted, year, idx) ==
    IF idx > Len(differences) THEN <<>>
    ELSE (IF idx > 1 THEN <<differences[idx]>> ELSE <<>>)
         \o FullYearDifferences_withCurrent(differences, sorted, year, idx + 1)

\* the differences kept for the mean: not the first entry, not the current year
RECURSIVE FullYearDifferences(_, _, _, _)
FullYearDifferences(differences, sorted, year, idx) ==
    IF idx > Len(differences) THEN <<>>
    ELSE (IF idx > 1 /\ NumberOf(sorted[idx].year) # year
          THEN <<differences[idx]>> ELSE <<>>)
         \o FullYearDifferences(differences, sorted, year, idx + 1)

\* meanValue as the exact rational num / den
MeanValue(differences, sorted, year) ==
    LET full == FullYearDifferences(differences, sorted, year, 1)
    IN  IF Len(full) > 0 THEN [num |-> Sum(full), den |-> Len(full)]
        ELSE IF Len(differences) > 0
             THEN [num |-> Sum(differences), den |-> Len(differences)]
             ELSE [num |-> 0, den |-> 1]

\* the mean line pushed on every call
WithMeanLine_push(datasets, meanLineDataset) == Append(datasets, meanLineDataset)

\* datasets[1] = meanLineDataset when a mean line is there already, else push
WithMeanLine(datasets, meanLineDataset) ==
    IF Len(datasets) > 1 THEN [datasets EXCEPT ![2] = meanLineDataset]
    ELSE Append(datasets, meanLineDataset)

\* item.year of a null element: TypeError inside data.map
updateYearlyYieldThrows(data) ==
    IsNonEmptyArray(data) /\ \E i \in 1..Len(data.items) : data.items[i] = Undef

updateYearlyYield(data) ==
    IF ~IsNonEmptyArray(data)
    THEN /\ yearlyChartOverlay' = [active |-> TRUE, content |-> "no-data"]
         /\ UNCHANGED yearlyYieldChart
    ELSE LET sorted == SortByYear(normalized(data))
             differences == Differences(sorted)
             meanValue == MeanValue(differences, sorted, currentYear)
             meanLineDataset ==
                 [label |-> MathRound(meanValue.num, meanValue.den),
                  data |-> [i \in 1..Len(differences) |-> meanValue]]
             bars == [yearlyYieldChart.datasets[1] EXCEPT !.data = differences]
         IN  /\ yearlyYieldChart' =
                    [labels |-> [i \in 1..Len(sorted) |-> sorted[i].year],
                     datasets |-> WithMeanLine(<<bars>> \o Tail(yearlyYieldChart.datasets),
                                               meanLineDataset)]
             /\ yearlyChartOverlay' = [yearlyChartOverlay EXCEPT !.active = FALSE]

-----------------------------------------------------------------------------
(* fetchData *)

Cycles == 1..MaxCycles
Resources == <<"current", "today", "yearly">>

Idle == [state |-> "idle", res |-> 0]
AwaitFetch(r) == [state |-> "fetch", res |-> r]      \* await fetchWithAuth(url)
AwaitJson(r) == [state |-> "json", res |-> r]        \* await response.json()
Resolved == [state |-> "resolved", res |-> 0]        \* the promise resolved
Rejected == [state |-> "rejected", res |-> 0]        \* the promise rejected

\* what a fetch settles to
NetworkFailure == [t |-> "reject"]
Response(status) == [t |-> "response", status |-> status,
                     ok |-> status \in 200..299]
\* what response.json() settles to
NonJson == [t |-> "nonjson"]
Json(success, data) == [t |-> "json", success |-> success, data |-> data]

UnauthorizedMessage == "Failed to fetch data: Unauthorized: Invalid API credentials"
TransportMessage == "Failed to fetch data: Failed to fetch"
SyntaxMessage == "Failed to fetch data: Unexpected token"
TypeErrorMessage == "Failed to fetch data: Cannot read properties of null"

\* history: cycle c met this event
Logged(c, event) == [log EXCEPT ![c].seen = @ \cup {event}]

\* the 401 check left out
IsUnauthorized_never(response) == FALSE

\* !response.ok && response.status === 401
IsUnauthorized(response) == ~response.ok /\ response.status = 401

\* no catch block: the finally block runs and the error leaves fetchData
Catch_rethrow(c, event, message) ==
    /\ powerCardSpinner' = FALSE
    /\ yieldCardSpinner' = FALSE
    /\ pc' = [pc EXCEPT ![c] = Rejected]
    /\ log' = Logged(c, event)
    /\ UNCHANGED <<errorContainer, timestamp, metricVars, timeSeriesVars, yearlyVars,
                   currentYear, applied, lastCall, exchange>>

\* catch (error) { ... } finally { ... }: the banner, then the card spinners
Catch(c, event, message) ==
    /\ errorContainer' = message
    /\ powerCardSpinner' = FALSE
    /\ yieldCardSpinner' = FALSE
    /\ pc' = [pc EXCEPT ![c] = Resolved]
    /\ log' = [Logged(c, event) EXCEPT ![c].banners = Append(@, message)]
    /\ UNCHANGED <<timestamp, metricVars, timeSeriesVars, yearlyVars, currentYear,
                   applied, lastCall, exchange>>

\* the try block up to the first await: indicators on, banner cleared
fetchDataStart(c) ==
    /\ pc[c] = Idle
    /\ powerCardSpinner' = TRUE
    /\ yieldCardSpinner' = TRUE
    /\ powerChartOverlay' = [powerChartOverlay EXCEPT !.active = TRUE]
    /\ yearlyChartOverlay' = [yearlyChartOverlay EXCEPT !.active = TRUE]
    /\ errorContainer' = ""
    /\ pc' = [pc EXCEPT ![c] = AwaitFetch(1)]
    /\ UNCHANGED <<timestamp, metricVars, powerTimeSeriesChart, yearlyYieldChart,
                   currentYear, applied, log, lastCall, exchange>>

\* await fetchWithAuth(url) settles: rejection, 401, or on to response.json()
fetchSettles(c, r, outcome) ==
    /\ pc[c] = AwaitFetch(r)
    /\ IF outcome = NetworkFailure
       THEN Catch(c, "reject", TransportMessage)
       ELSE IF IsUnauthorized(outcome)
       THEN Catch(c, "401", UnauthorizedMessage)
       ELSE /\ pc' = [pc EXCEPT ![c] = AwaitJson(r)]
            /\ log' = IF outcome.status = 401 THEN Logged(c, "401") ELSE log
            /\ UNCHANGED <<domVars, metricVars, timeSeriesVars, yearlyVars,
                           currentYear, applied, lastCall, exchange>>

\* the transform of resource r
Throws(r, data) ==
    CASE r = 1 -> updateMetricsThrows(data)
      [] r = 2 -> FALSE
      [] r = 3 -> updateYearlyYieldThrows(data)

Writes(r, data) ==
    CASE r = 1 -> TRUE
      [] r = 2 -> IsNonEmptyArray(data)
      [] r = 3 -> IsNonEmptyArray(data)

\* a transform that drops the write of a cycle older than the last writer
Transform_dropStale(c, r, data) ==
    /\ IF applied[r] # Undef /\ applied[r].by > c
       THEN UNCHANGED <<metricVars, timeSeriesVars, yearlyVars>>
       ELSE CASE r = 1 -> updateMetrics(data) /\ UNCHANGED <<timeSeriesVars, yearlyVars>>
              [] r = 2 -> updateTimeSeries(data) /\ UNCHANGED <<metricVars, yearlyVars>>
              [] r = 3 -> updateYearlyYield(data) /\ UNCHANGED <<metricVars, timeSeriesVars>>
    /\ applied' = IF Writes(r, data)
                  THEN [applied EXCEPT ![r] = [by |-> c, data |-> data,
                                               year |-> currentYear]]
                  ELSE applied

Transform(c, r, data) ==
    /\ CASE r = 1 -> updateMetrics(data) /\ UNCHANGED <<timeSeriesVars, yearlyVars>>
         [] r = 2 -> updateTimeSeries(data) /\ UNCHANGED <<metricVars, yearlyVars>>
         [] r = 3 -> updateYearlyYield(data) /\ UNCHANGED <<metricVars, timeSeriesVars>>
    /\ applied' = IF Writes(r, data)
                  THEN [applied EXCEPT ![r] = [by |-> c, data |-> data,
                                               year |-> currentYear]]
                  ELSE applied

\* after the transform of resource r: the next fetch, or the end of the try block
Continue(c, r) ==
    IF r < Len(Resources)
    THEN /\ pc' = [pc EXCEPT ![c] = AwaitFetch(r + 1)]
         /\ UNCHANGED domVars
    ELSE /\ timestamp' = c
         /\ powerCardSpinner' = FALSE
         /\ yieldCardSpinner' = FALSE
         /\ pc' = [pc EXCEPT ![c] = Resolved]
         /\ UNCHANGED errorContainer

\* await response.json() settles: non-JSON, success: false, or the transform
jsonSettles(c, r, body) ==
    /\ pc[c] = AwaitJson(r)
    /\ IF body = NonJson
       THEN Catch(c, "nonjson", SyntaxMessage)
       ELSE IF body.success /\ Throws(r, body.data)
       THEN Catch(c, "threw", TypeErrorMessage)
       ELSE /\ IF body.success
               THEN Transform(c, r, body.data)
               ELSE UNCHANGED <<metricVars, timeSeriesVars, yearlyVars, applied>>
            /\ Continue(c, r)
            /\ UNCHANGED <<currentYear, log, lastCall, exchange>>

-----------------------------------------------------------------------------
(* The gateway (src/pwa/src/index.ts) *)

\* a string, as the chunks it is made of; 'Bearer ' is one chunk
Text(chunks) == [t |-> "text", chunks |-> chunks]
Bearer == "Bearer "

\* str.replace('Bearer ', ''): the first occurrence removed, wherever it stands
RECURSIVE ReplaceFirst(_, _)
ReplaceFirst(chunks, pattern) ==
    IF Len(chunks) = 0 THEN <<>>
    ELSE IF Head(chunks) = pattern THEN Tail(chunks)
    ELSE <<Head(chunks)>> \o ReplaceFirst(Tail(chunks), pattern)

\* !value of a string or undefined
Falsy(value) == value = Undef \/ value.chunks = <<>>

\* verifyPwaToken(c)
verifyPwaToken(req, secret) ==
    IF Falsy(secret) THEN TRUE
    ELSE LET providedToken ==
                 IF req.authorization = Undef THEN Undef
                 ELSE Text(ReplaceFirst(req.authorization.chunks, Bearer))
         IN  providedToken = secret

\* what a handler does: pass to the next matching handler, or answer
PassOn == [t |-> "next"]
Answer(by, status, body, forwarded) ==
    [t |-> "response", by |-> by, status |-> status, body |-> body,
     forwarded |-> forwarded]
NotForwarded == [t |-> "none"]

publicPaths == {"/auth.html", "/auth-check"}

\* the authentication middleware
Gate(req, secret) ==
    IF req.path \in publicPaths THEN PassOn
    ELSE IF ~verifyPwaToken(req, secret)
    THEN IF req.accept = "application/json"
         THEN Answer("gate", 401, "error: Unauthorized", NotForwarded)
         ELSE Answer("gate", 401, "auth page", NotForwarded)
    ELSE PassOn

\* app.get('/auth-check')
AuthCheck(req, secret) ==
    IF verifyPwaToken(req, secret)
    THEN Answer("auth-check", 200, "authenticated: true", NotForwarded)
    ELSE Answer("auth-check", 401, "authenticated: false", NotForwarded)

\* app.get('/auth.html')
AuthPage == Answer("auth.html", 200, "auth page", NotForwarded)

\* serveStatic: the asset when the manifest has one for the path, else next()
ServeStatic(req) ==
    IF req.asset THEN Answer("static", 200, "asset", NotForwarded) ELSE PassOn

\* app.get('/'), app.get('/index.html')
MainPage == Answer("main", 200, "main page", NotForwarded)

\* getAuthHeaders(c): the Authorization header when it is there and not empty
getAuthHeaders(req) ==
    IF Falsy(req.authorization) THEN [Authorization |-> Undef]
    ELSE [Authorization |-> req.authorization]

\* what the upstream API does with a forwarded request
UpstreamThrows == [t |-> "throws"]
UpstreamResponse(status, json) == [t |-> "response", status |-> status, json |-> json]

\* an API proxy endpoint: fetch upstream, relay status and JSON, 500 on a throw
Proxy(req, upstream) ==
    LET headers == getAuthHeaders(req)
        forwarded == [t |-> "upstream", path |-> req.path, headers |-> headers]
    IN  IF upstream = UpstreamThrows \/ ~upstream.json
        THEN Answer("proxy", 500, "error: Failed to fetch", forwarded)
        ELSE Answer("proxy", upstream.status, "upstream JSON", forwarded)

\* the routes in the order they are registered
Route(method, pattern, handler) ==
    [method |-> method, pattern |-> pattern, handler |-> handler]
Routes ==
    <<Route("ALL", "/", "gate"),
      Route("GET", "/auth-check", "auth-check"),
      Route("GET", "/auth.html", "auth.html"),
      Route("ALL", "/*", "static"),
      Route("GET", "/", "main"),
      Route("GET", "/index.html", "main"),
      Route("GET", "/api/current", "proxy"),
      Route("GET", "/api/current-and-max", "proxy"),
      Route("GET", "/api/today", "proxy")>>

\* Hono's route matching: '/*' is every path, any other pattern here the path
\* itself
Matches(route, req) ==
    /\ route.method \in {"ALL", req.method}
    /\ route.pattern = "/*" \/ route.pattern = req.path

Handle(handler, req, secret, upstream) ==
    CASE handler = "gate" -> Gate(req, secret)
      [] handler = "auth-check" -> AuthCheck(req, secret)
      [] handler = "auth.html" -> AuthPage
      [] handler = "static" -> ServeStatic(req)
      [] handler = "main" -> MainPage
      [] handler = "proxy" -> Proxy(req, upstream)

\* the matching handlers run in registration order until one answers; Hono's
\* notFound answers when none does
RECURSIVE Dispatch(_, _, _, _)
Dispatch(i, req, secret, upstream) ==
    IF i > Len(Routes) THEN Answer("notFound", 404, "404 Not Found", NotForwarded)
    ELSE IF ~Matches(Routes[i], req) THEN Dispatch(i + 1, req, secret, upstream)
    ELSE LET result == Handle(Routes[i].handler, req, secret, upstream)
         IN  IF result = PassOn THEN Dispatch(i + 1, req, secret, upstream)
             ELSE result

\* app.fetch(request, env)
Fetch(req, secret, upstream) ==
    /\ exchange' = [req |-> req, secret |-> secret, upstream |-> upstream,
                    res |-> Dispatch(1, req, secret, upstream)]
    /\ UNCHANGED <<pc, domVars, metricVars, timeSeriesVars, yearlyVars, currentYear,
                   log, applied, lastCall>>

-----------------------------------------------------------------------------
(* Inputs *)

\* /api/current payloads of a refresh cycle: null, a fractional reading below
\* the maximum, a reading above it
CurrentObject(power, total) == [power |-> power, total_yield |-> total]
CurrentPayloads ==
    {Undef,
     CurrentObject(Num(1000 * PowerScale + 1), Num(5000500 * PowerScale)),
     CurrentObject(Num(5000 * PowerScale), Undef)}

Sample(ts, power) == [TimeStamp |-> ts, Power |-> power]
Array(items) == [items |-> items]
TodayPayloads ==
    {Undef,
     Array(<<Sample(100, Num(200 * PowerScale)), Sample(50, Num(300 * PowerScale))>>),
     Array(<<Sample(7200, Undef)>>)}

NoKeys == [year |-> Undef, Year |-> Undef, year_value |-> Undef, yearVal |-> Undef,
           yield |-> Undef, Yield |-> Undef, total |-> Undef, Total |-> Undef,
           total_yield |-> Undef]
YearRecord(year, total) == [NoKeys EXCEPT !.year = year, !.total_yield = total]

\* the spec's examples: cumulative kWh 1000, 1500, 1200 and 100, 400, 900
ExampleClamp == Array(<<YearRecord(Num(2022), Num(1000000)),
                        YearRecord(Num(2023), Num(1500000)),
                        YearRecord(Num(2024), Num(1200000))>>)
ExampleMean == Array(<<YearRecord(Num(2021), Num(400000)),
                       YearRecord(Num(2022), Num(900000)),
                       YearRecord(Num(2020), Num(100000))>>)
ExampleNoYear == Array(<<YearRecord(Undef, Num(5000)), YearRecord(Undef, Undef)>>)
ExampleDash == Array(<<YearRecord(Num(2021), Num(1499)),
                       YearRecord(Str("-"), Num(5000)),
                       YearRecord(Num(2020), Num(500))>>)
ExampleNullItem == Array(<<YearRecord(Num(2021), Num(400000)), Undef>>)

YearlyPayloads == {Array(<<>>), ExampleClamp, ExampleMean, ExampleNullItem}

Payloads(r) ==
    CASE r = 1 -> CurrentPayloads
      [] r = 2 -> TodayPayloads
      [] r = 3 -> YearlyPayloads

FetchOutcomes == {NetworkFailure, Response(200), Response(401), Response(500)}
Bodies(r) == {NonJson, Json(FALSE, Undef)} \cup {Json(TRUE, d) : d \in Payloads(r)}

\* every reading the gauge is checked on
GaugeInputs ==
    CurrentPayloads \cup {CurrentObject(Undef, Undef)} \cup
    {CurrentObject(Num(k), Undef) :
        k \in (0 - MaxReading * PowerScale)..(MaxReading * PowerScale)}

\* today samples enumerated in sequences: three timestamps (two in the same
\* hour, so ties and both orders occur), the power absent, 200.5 W or 300 W
SampleTimes == {50, 100, 3700}
SamplePowers == {Undef, Num(200 * PowerScale + 1), Num(300 * PowerScale)}
Samples == {Sample(ts, power) : ts \in SampleTimes, power \in SamplePowers}

\* what is not an array: null, a number, a string, an object
NonArrays == {Undef, Num(0), Str("[]"), CurrentObject(Num(0), Undef)}

\* the today payloads a sequence of calls is drawn from
TodayCalls == TodayPayloads \cup {Array(<<>>), Num(0)}

TodayInputs ==
    TodayCalls \cup NonArrays
    \cup {Array(items) : items \in UNION {[1..m -> Samples] : m \in 0..MaxSamples}}

\* yearly records enumerated in sequences: the year under its canonical key
\* (absent or a calendar year), the yield under total_yield (absent or 2.5 kWh)
Years == 2020..(2020 + MaxYears - 1)
SeqYearValues == {Undef} \cup {Num(y) : y \in Years}
SeqYieldValues == {Undef, Num(2500)}
SeqRecords == {YearRecord(y, w) : y \in SeqYearValues, w \in SeqYieldValues}
SeqsUpTo(S, n) == UNION {[1..m -> S] : m \in 0..n}

\* single records over every alias: an alias is absent, the string '-' (year)
\* or 0 (yield), or a value of its own
AliasYear(i, kind) ==
    CASE kind = 0 -> Undef
      [] kind = 1 -> Str("-")
      [] kind = 2 -> Num(2020 + i)
AliasYield(j, kind) ==
    CASE kind = 0 -> Undef
      [] kind = 1 -> Num(0)
      [] kind = 2 -> Num(1000 * j + 500)
AliasRecords ==
    {[year |-> AliasYear(1, a[1]), Year |-> AliasYear(2, a[2]),
      year_value |-> AliasYear(3, a[3]), yearVal |-> AliasYear(4, a[4]),
      yield |-> AliasYield(1, b[1]), Yield |-> AliasYield(2, b[2]),
      total |-> AliasYield(3, b[3]), Total |-> AliasYield(4, b[4]),
      total_yield |-> AliasYield(5, b[5])] :
        a \in [1..4 -> 0..2], b \in [1..5 -> 0..2]}

YearlyInputs ==
    YearlyPayloads \cup {Undef, ExampleNoYear, ExampleDash}
    \cup {Array(items) : items \in SeqsUpTo(SeqRecords, MaxRecords)}
    \cup {Array(<<item>>) : item \in AliasRecords}

\* gateway requests: the paths the page and the client ask for
ApiPaths == {"/api/current", "/api/today", "/api/yearly-yield"}
StaticPaths == {"/", "/index.html", "/app.js"}
Paths == StaticPaths \cup publicPaths \cup ApiPaths \cup {"/api/current-and-max"}

\* the secret and the Authorization header, over the chunks 'Bearer ', 's3', 'cret'
Secrets == {Undef, Text(<<>>), Text(<<"s3", "cret">>)}
Chunks == {Bearer, "s3", "cret"}
Authorizations ==
    {Undef} \cup {Text(chunks) : chunks \in UNION {[1..m -> Chunks] : m \in 0..MaxHeader}}

Request(path, authorization, accept, asset) ==
    [method |-> "GET", path |-> path, authorization |-> authorization,
     accept |-> accept, asset |-> asset]
Requests ==
    {Request(path, authorization, accept, asset) :
        path \in Paths, authorization \in Authorizations,
        accept \in {"application/json", "text/html"},
        asset \in BOOLEAN}

\* the manifest holds assets of the public directory only
AssetPossible(req) == req.asset => req.path \in StaticPaths

Upstreams ==
    {UpstreamThrows, UpstreamResponse(200, TRUE), UpstreamResponse(401, TRUE),
     UpstreamResponse(500, TRUE), UpstreamResponse(502, FALSE)}

-----------------------------------------------------------------------------
(* Specifications *)

\* the page after initializeApp has built the three charts, in calendar year `year`
InitPage(year) ==
    /\ pc = [c \in Cycles |-> Idle]
    /\ errorContainer = ""
    /\ powerCardSpinner = FALSE
    /\ yieldCardSpinner = FALSE
    /\ powerChartOverlay = [active |-> FALSE, content |-> "spinner"]
    /\ yearlyChartOverlay = [active |-> FALSE, content |-> "spinner"]
    /\ timestamp = 0
    /\ powerValue = Undef
    /\ yieldValue = Undef
    /\ powerGaugeChart = <<60 * maxPower, 20 * maxPower, 20 * maxPower, 0>>
    /\ powerTimeSeriesChart = [labels |-> <<>>, data |-> <<>>]
    /\ yearlyYieldChart =
           [labels |-> <<>>,
            datasets |-> <<[label |-> Str("Energy (kWh)"), data |-> <<>>]>>]
    /\ currentYear = year
    /\ log = [c \in Cycles |-> [seen |-> {}, banners |-> <<>>]]
    /\ applied = [r \in 1..Len(Resources) |-> Undef]
    /\ lastCall = Undef
    /\ exchange = Undef

Init == InitPage(2020 + 1)

\* refresh cycles: initializeApp's, then pull-to-refresh's, overlapping freely
Next ==
    \/ \E c \in Cycles : (\A d \in 1..(c - 1) : pc[d] # Idle) /\ fetchDataStart(c)
    \/ \E c \in Cycles, r \in 1..Len(Resources), outcome \in FetchOutcomes :
           fetchSettles(c, r, outcome)
    \/ \E c \in Cycles, r \in 1..Len(Resources) :
           \E body \in Bodies(r) : jsonSettles(c, r, body)

Spec == Init /\ [][Next]_vars

\* the argument of an update function sorted where it stands (data.sort)
ArgumentAfter_sortedInPlace(r, data) ==
    IF r = 2 /\ IsNonEmptyArray(data) THEN [items |-> sortedData(data)] ELSE data

\* the argument of an update function after the call: updateTimeSeries sorts a
\* copy ([...data]), updateYearlyYield sorts the array data.map built, so the
\* caller's array is as it was
ArgumentAfter(r, data) == data

\* the charts and overlays as they stand
Sinks ==
    [gauge |-> powerGaugeChart,
     series |-> powerTimeSeriesChart, seriesOverlay |-> powerChartOverlay,
     yearly |-> yearlyYieldChart, yearlyOverlay |-> yearlyChartOverlay]

\* a transform called on its own, outside any cycle (cycle 0)
Call(r, data) ==
    /\ ~Throws(r, data)
    /\ Transform(0, r, data)
    /\ lastCall' = [res |-> r, data |-> data, before |-> Sinks,
                    dataAfter |-> ArgumentAfter(r, data),
                    calledBefore |-> lastCall # Undef,
                    dataBefore |-> IF lastCall = Undef THEN Undef ELSE lastCall.data]
    /\ UNCHANGED <<pc, domVars, currentYear, log, exchange>>

\* the reading one step of 1/PowerScale watt above the one in data
NextReading(data) == CurrentObject(Num(OrZero(data.power) + 1), Undef)

\* one call on any enumerated input, then the call on the next larger reading,
\* or any sequence of calls on the payloads of the refresh cycles
NextGauge ==
    \/ applied[1] = Undef /\ \E data \in GaugeInputs : Call(1, data)
    \/ /\ applied[1] # Undef
       /\ applied[1].data \in CurrentPayloads
       /\ \E data \in CurrentPayloads : Call(1, data)
    \/ /\ applied[1] # Undef
       /\ NextReading(applied[1].data) \in GaugeInputs
       /\ Call(1, NextReading(applied[1].data))

SpecGauge == Init /\ [][NextGauge]_vars

NextYearly ==
    \/ lastCall = Undef /\ \E data \in YearlyInputs : Call(3, data)
    \/ /\ lastCall # Undef
       /\ lastCall.data \in YearlyPayloads
       /\ \E data \in YearlyPayloads : Call(3, data)

\* one call on any enumerated input, or any sequence of calls on the today
\* payloads
NextToday ==
    \/ lastCall = Undef /\ \E data \in TodayInputs : Call(2, data)
    \/ /\ lastCall # Undef
       /\ lastCall.data \in TodayCalls
       /\ \E data \in TodayCalls : Call(2, data)

SpecToday == Init /\ [][NextToday]_vars

\* one request to the gateway, which keeps no state between requests; the
\* upstream API is asked only by the proxy endpoints
NextGateway ==
    /\ exchange = Undef
    /\ \E req \in Requests, secret \in Secrets, upstream \in Upstreams :
           /\ AssetPossible(req)
           /\ upstream # UpstreamThrows =>
                  \E i \in 1..Len(Routes) :
                      Routes[i].handler = "proxy" /\ Routes[i].pattern = req.path
           /\ Fetch(req, secret, upstream)

SpecGateway == Init /\ [][NextGateway]_vars

\* the clock stands in any year from the second data year to the year after the last
ClockYears == (2020 + 1)..(2020 + MaxYears)
InitYearly == \E year \in ClockYears : InitPage(year)

SpecYearly == InitYearly /\ [][NextYearly]_vars

-----------------------------------------------------------------------------
(* Properties of the gauge (SpecGauge) *)

gaugeWritten == applied[1] # Undef
reading == OrZero(applied[1].data.power)      \* the reading, in 1/PowerScale watt
normalBand == powerGaugeChart[1]
warningBand == powerGaugeChart[2]
criticalBand == powerGaugeChart[3]
remainingBand == powerGaugeChart[4]

\* C9 as stated: the slices sum to 100 and remaining = 100 - min(r/m*100, 100)
\* for the reading r as upstream delivered it (compared over the common
\* denominator maxPower * PowerScale).
C9_RemainingOfRawReading ==
    gaugeWritten =>
        /\ normalBand + warningBand + criticalBand + remainingBand = 100 * maxPower
        /\ remainingBand * PowerScale =
               100 * maxPower * PowerScale - Min(reading * 100, 100 * maxPower * PowerScale)

\* C9 amended: with w the reading rounded to the nearest integer watt (the
\* value shown in #powerValue), the slices sum to 100, remaining is
\* 100 - min(w/m*100, 100), and the filled part never exceeds 100.
C9_RemainingOfRoundedReading ==
    gaugeWritten =>
        LET w == powerValue.v
        IN  /\ 2 * PowerScale * w - PowerScale <= 2 * reading
            /\ 2 * reading < 2 * PowerScale * w + PowerScale
            /\ normalBand + warningBand + criticalBand + remainingBand = 100 * maxPower
            /\ remainingBand = 100 * maxPower - Min(w * 100, 100 * maxPower)
            /\ normalBand + warningBand + criticalBand <= 100 * maxPower

\* a reading above the maximum was written: the gauge is full
C9_Witness ==
    /\ gaugeWritten
    /\ reading > maxPower * PowerScale
    /\ remainingBand = 0
    /\ normalBand + warningBand + criticalBand = 100 * maxPower

\* C10 as stated: for every reading, negative ones included, the four slices
\* are >= 0, normal = min(pct, 60), warning = min(pct, 80) - 60 above 60 else 0,
\* critical = pct - 80 above 80 else 0, each within its width, and a later band
\* is filled only when the earlier one is full.
C10_BandsNonNegativeAndOrdered ==
    gaugeWritten =>
        LET pct == 100 * maxPower - remainingBand
        IN  /\ normalBand >= 0 /\ warningBand >= 0
            /\ criticalBand >= 0 /\ remainingBand >= 0
            /\ normalBand = Min(pct, 60 * maxPower)
            /\ warningBand = IF pct > 60 * maxPower
                             THEN Min(pct, 80 * maxPower) - 60 * maxPower ELSE 0
            /\ criticalBand = IF pct > 80 * maxPower THEN pct - 80 * maxPower ELSE 0
            /\ normalBand <= 60 * maxPower
            /\ warningBand <= 20 * maxPower
            /\ criticalBand <= 20 * maxPower
            /\ (warningBand > 0 => normalBand = 60 * maxPower)
            /\ (criticalBand > 0 => warningBand = 20 * maxPower)

\* C10 without the sign of the slices: what holds for every reading
C10_BandsOrdered ==
    gaugeWritten =>
        LET pct == 100 * maxPower - remainingBand
        IN  /\ normalBand = Min(pct, 60 * maxPower)
            /\ warningBand = IF pct > 60 * maxPower
                             THEN Min(pct, 80 * maxPower) - 60 * maxPower ELSE 0
            /\ criticalBand = IF pct > 80 * maxPower THEN pct - 80 * maxPower ELSE 0
            /\ (reading >= 0 => normalBand >= 0 /\ remainingBand >= 0)

filledOf(slices) == slices[1] + slices[2] + slices[3]

\* C11: of two readings given to updateMetrics one after the other, the larger
\* one fills at least as much of the gauge (normal + warning + critical) and
\* leaves at most as much remaining; equal readings fill the same.
C11_FilledMonotonic ==
    (gaugeWritten /\ lastCall # Undef /\ lastCall.calledBefore) =>
        LET r1 == OrZero(lastCall.dataBefore.power)
            r2 == reading
            slices1 == lastCall.before.gauge
        IN  /\ r1 <= r2 => /\ filledOf(slices1) <= filledOf(powerGaugeChart)
                           /\ slices1[4] >= remainingBand
            /\ r2 <= r1 => /\ filledOf(powerGaugeChart) <= filledOf(slices1)
                           /\ remainingBand >= slices1[4]

\* a larger reading was written after a smaller one and filled strictly more
C11_Witness ==
    /\ gaugeWritten /\ lastCall # Undef /\ lastCall.calledBefore
    /\ OrZero(lastCall.dataBefore.power) < reading
    /\ filledOf(lastCall.before.gauge) < filledOf(powerGaugeChart)
    /\ normalBand = 60 * maxPower /\ warningBand > 0

-----------------------------------------------------------------------------
(* Properties of the time series (SpecToday) *)

todayCalled == lastCall # Undef /\ lastCall.res = 2
IsArray(data) == "items" \in DOMAIN data

\* C12: after updateTimeSeries on a non-empty array, labels and values have the
\* length of the input and are the input's samples in ascending TimeStamp
\* order, equal TimeStamps in their input order; each value is the sample's
\* Power (0 when missing) rounded to the nearest integer; and the input array
\* is as it was before the call.
C12_StableSortedSeries ==
    (todayCalled /\ IsArray(lastCall.data) /\ Len(lastCall.data.items) > 0) =>
        LET items == lastCall.data.items
            n == Len(items)
            labels == powerTimeSeriesChart.labels
            powers == powerTimeSeriesChart.data
            StableAscending(p) ==
                /\ {p[i] : i \in 1..n} = 1..n
                /\ \A i, j \in 1..n : i < j =>
                       \/ items[p[i]].TimeStamp < items[p[j]].TimeStamp
                       \/ /\ items[p[i]].TimeStamp = items[p[j]].TimeStamp
                          /\ p[i] < p[j]
            RoundedPower(w, power) ==
                LET k == IF power = Undef THEN 0 ELSE power.v
                IN  2 * PowerScale * w - PowerScale <= 2 * k
                    /\ 2 * k < 2 * PowerScale * w + PowerScale
        IN  /\ Len(labels) = n /\ Len(powers) = n
            /\ \E p \in [1..n -> 1..n] :
                   /\ StableAscending(p)
                   /\ \A i \in 1..n :
                          /\ labels[i] = TimeLabel(items[p[i]].TimeStamp)
                          /\ RoundedPower(powers[i], items[p[i]].Power)
            /\ lastCall.dataAfter = lastCall.data

\* the spec's example, {TimeStamp: 100, Power: 200} then {TimeStamp: 50,
\* Power: 300}, was written as 300 (12:00 AM) then 200 (12:01 AM)
C12_Witness ==
    /\ todayCalled
    /\ lastCall.data =
           Array(<<Sample(100, Num(200 * PowerScale)), Sample(50, Num(300 * PowerScale))>>)
    /\ powerTimeSeriesChart.data = <<300, 200>>
    /\ powerTimeSeriesChart.labels =
           <<[hh |-> 12, mm |-> 0, pm |-> FALSE], [hh |-> 12, mm |-> 1, pm |-> FALSE]>>

\* C13: after updateTimeSeries on an empty array or on what is not an array,
\* the overlay is active with the "no data" placeholder and the chart's labels
\* and values are what they were before the call; after a call on a non-empty
\* array the overlay is inactive and the series has the input's length.
C13_NoDataSignal ==
    todayCalled =>
        IF IsArray(lastCall.data) /\ Len(lastCall.data.items) > 0
        THEN /\ ~powerChartOverlay.active
             /\ Len(powerTimeSeriesChart.labels) = Len(lastCall.data.items)
             /\ Len(powerTimeSeriesChart.data) = Len(lastCall.data.items)
        ELSE /\ powerChartOverlay = [active |-> TRUE, content |-> "no-data"]
             /\ powerTimeSeriesChart = lastCall.before.series

\* a non-empty series, then an empty payload (the series stayed, the
\* placeholder showed), then a non-empty series again: placeholder off
C13_Witness ==
    /\ todayCalled /\ lastCall.calledBefore
    /\ lastCall.dataBefore = Array(<<>>)
    /\ lastCall.before.seriesOverlay = [active |-> TRUE, content |-> "no-data"]
    /\ Len(lastCall.before.series.data) = 2
    /\ lastCall.data = Array(<<Sample(7200, Undef)>>)
    /\ powerTimeSeriesChart.data = <<0>>
    /\ ~powerChartOverlay.active

-----------------------------------------------------------------------------
(* Properties of the yearly series (SpecYearly) *)

yearlyWritten == applied[3] # Undef
yearlyLabels == yearlyYieldChart.labels
deltaKwh == yearlyYieldChart.datasets[1].data

\* the entries with the smallest year first, in their original order, then the rest
RECURSIVE AscendingByYear(_)
AscendingByYear(entries) ==
    IF Len(entries) = 0 THEN <<>>
    ELSE LET least == CHOOSE y \in {entries[i].year.v : i \in 1..Len(entries)} :
                          \A i \in 1..Len(entries) : y <= entries[i].year.v
             IsLeast(e) == e.year.v = least
             IsLater(e) == e.year.v # least
         IN  SelectSeq(entries, IsLeast) \o AscendingByYear(SelectSeq(entries, IsLater))

\* the usable records of the payload the series was last written from
usableEntries == normalized(applied[3].data)

\* C5: when the payload has a usable record, the years are in ascending order,
\* there is one delta per year, the first delta is the first entry's cumulative
\* kWh as it is, and every later delta is max(0, cumulative - previous cumulative).
C5_DeltasOfSortedYears ==
    (yearlyWritten /\ Len(usableEntries) > 0) =>
        LET entries == AscendingByYear(usableEntries)
            n == Len(entries)
        IN  /\ Len(yearlyLabels) = n
            /\ Len(deltaKwh) = Len(yearlyLabels)
            /\ \A i \in 1..n : yearlyLabels[i] = entries[i].year
            /\ \A i \in 1..(n - 1) : yearlyLabels[i].v <= yearlyLabels[i + 1].v
            /\ deltaKwh[1] = entries[1].kwh
            /\ \A i \in 2..n : deltaKwh[i] = Max(0, entries[i].kwh - entries[i - 1].kwh)

\* cumulative 1000, 1500, 1200 kWh were written as the deltas 1000, 500, 0
C5_Witness ==
    /\ yearlyWritten
    /\ applied[3].data = ExampleClamp
    /\ deltaKwh = <<1000, 500, 0>>
    /\ yearlyLabels = <<Num(2022), Num(2023), Num(2024)>>

RECURSIVE SumOver(_, _)
SumOver(f, S) ==
    IF S = {} THEN 0
    ELSE LET i == CHOOSE j \in S : TRUE IN f[i] + SumOver(f, S \ {i})

\* C6: the mean line is the mean of the deltas of the full years (not the
\* first entry, not the calendar year of the wall clock when the series was
\* written), or, when no year is full, the mean of all deltas.
C6_MeanOfFullYears ==
    (yearlyWritten /\ Len(deltaKwh) > 0) =>
        LET n == Len(deltaKwh)
            full == {i \in 2..n : yearlyLabels[i].v # applied[3].year}
            over == IF full # {} THEN full ELSE 1..n
            meanLine == yearlyYieldChart.datasets[2].data
        IN  /\ Len(meanLine) = n
            /\ \A i \in 1..n :
                   /\ meanLine[i].den > 0
                   /\ meanLine[i].num * Cardinality(over) =
                          SumOver(deltaKwh, over) * meanLine[i].den

\* years 2020, 2021, 2022 with deltas 100, 300, 500 in the year 2022: mean 300
C6_Witness ==
    /\ yearlyWritten
    /\ applied[3].data = ExampleMean
    /\ applied[3].year = 2022
    /\ deltaKwh = <<100, 300, 500>>
    /\ yearlyYieldChart.datasets[2].data[1].num =
           300 * yearlyYieldChart.datasets[2].data[1].den

\* C7 as stated: the series is never written from a payload whose usable
\* records are none (such a payload gets the "no data" overlay instead), so the
\* chart never shows an empty series with the overlay hidden.
C7_NoDataWhenNothingUsable ==
    yearlyWritten =>
        /\ Len(usableEntries) > 0
        /\ ~(Len(yearlyLabels) = 0 /\ ~yearlyChartOverlay.active)

\* the first value among vals that is not null/undefined, else dflt
RECURSIVE FirstPresent(_, _)
FirstPresent(vals, dflt) ==
    IF Len(vals) = 0 THEN dflt
    ELSE IF Head(vals) # Undef THEN Head(vals) ELSE FirstPresent(Tail(vals), dflt)

yearAliases(item) == <<item.year, item.Year, item.year_value, item.yearVal>>
yieldAliases(item) == <<item.yield, item.Yield, item.total, item.Total, item.total_yield>>

\* C8 as stated, on a payload of one record: the record is dropped if and only
\* if no year alias resolves; otherwise its year is the first present year
\* alias and its kWh is round(first present yield alias, or 0, / 1000).
C8_NormalizedRecord ==
    (yearlyWritten /\ Len(applied[3].data.items) = 1) =>
        LET item == applied[3].data.items[1]
            year == FirstPresent(yearAliases(item), Undef)
            yieldWh == FirstPresent(yieldAliases(item), Num(0))
        IN  /\ (Len(yearlyLabels) = 0) <=> (year = Undef)
            /\ year # Undef =>
                   /\ yearlyLabels = <<year>>
                   /\ 2 * deltaKwh[1] * 1000 - 1000 <= 2 * yieldWh.v
                   /\ 2 * yieldWh.v < 2 * deltaKwh[1] * 1000 + 1000

\* C8 with the sentinel: the record is dropped if and only if no year alias
\* resolves or the first present one is the string '-'
C8_NormalizedRecordOrDash ==
    (yearlyWritten /\ Len(applied[3].data.items) = 1) =>
        LET item == applied[3].data.items[1]
            year == FirstPresent(yearAliases(item), Undef)
            yieldWh == FirstPresent(yieldAliases(item), Num(0))
        IN  /\ (Len(yearlyLabels) = 0) <=> (year = Undef \/ year = Str("-"))
            /\ (year # Undef /\ year # Str("-")) =>
                   /\ yearlyLabels = <<year>>
                   /\ 2 * deltaKwh[1] * 1000 - 1000 <= 2 * yieldWh.v
                   /\ 2 * yieldWh.v < 2 * deltaKwh[1] * 1000 + 1000

\* C14: once updateYearlyYield has written the chart, whatever the number of
\* calls, the chart holds exactly two datasets: the deltas, and the mean line
\* of this call's deltas, one and the same value once per year label.
C14_TwoDatasets ==
    yearlyWritten =>
        LET datasets == yearlyYieldChart.datasets
            n == Len(yearlyLabels)
        IN  /\ Len(datasets) = 2
            /\ Len(datasets[1].data) = n
            /\ Len(datasets[2].data) = n
            /\ \A i, j \in 1..n : datasets[2].data[i] = datasets[2].data[j]
            /\ datasets[1].data = Differences(SortByYear(usableEntries))
            /\ \A i \in 1..n :
                   datasets[2].data[i] =
                       MeanValue(datasets[1].data, SortByYear(usableEntries),
                                 applied[3].year)

\* the chart was written twice, from different payloads of three years each:
\* it held two datasets after the first call and holds two after the second
C14_Witness ==
    /\ yearlyWritten /\ lastCall # Undef /\ lastCall.calledBefore
    /\ lastCall.dataBefore = ExampleClamp /\ lastCall.data = ExampleMean
    /\ Len(lastCall.before.yearly.datasets) = 2
    /\ Len(yearlyYieldChart.datasets) = 2
    /\ Len(yearlyYieldChart.datasets[2].data) = 3
    /\ yearlyYieldChart.datasets[2] # lastCall.before.yearly.datasets[2]

-----------------------------------------------------------------------------
(* Properties of the refresh cycle (Spec) *)

settled(c) == pc[c] \in {Resolved, Rejected}
NonAuthFailures == {"reject", "nonjson", "threw"}
ErrorMessages == {TransportMessage, SyntaxMessage, TypeErrorMessage}

\* C1: a cycle that received a 401 ended at that response with exactly one
\* banner, the authentication error, without applying the timestamp; from then
\* on it neither fetches again nor changes.
C1_OneAuthErrorPerCycle ==
    /\ [](\A c \in Cycles :
            "401" \in log[c].seen =>
                /\ pc[c] = Resolved
                /\ log[c].banners = <<UnauthorizedMessage>>
                /\ timestamp # c)
    /\ [][\A c \in Cycles :
            /\ ("401" \in log[c].seen => pc'[c] = pc[c] /\ log'[c] = log[c])
            /\ ("401" \in log'[c].seen /\ "401" \notin log[c].seen =>
                    /\ pc[c].state = "fetch"
                    /\ errorContainer' = UnauthorizedMessage)]_vars

\* the 401 came on the third call: the cycle had applied the first two payloads
C1_Witness ==
    \E c \in Cycles :
        /\ "401" \in log[c].seen
        /\ applied[1] # Undef /\ applied[1].by = c
        /\ applied[2] # Undef /\ applied[2].by = c
        /\ errorContainer = UnauthorizedMessage

\* C2 as stated: a cycle that meets no 401 ends only at its third resource:
\* whatever fails on one resource, the other two are still requested.
C2_EachFetchIndependent ==
    [][\A c \in Cycles :
          (~settled(c) /\ settled(c)' /\ "401" \notin log'[c].seen) =>
              pc[c].res = Len(Resources)]_vars

\* C3: no cycle's promise rejects; a cycle that met a network failure, a
\* non-JSON body or a throwing transform resolved with one banner, shown (and
\* the card spinners off) when it ended; and the next cycle can always start.
C3_FailuresContained ==
    /\ [](\A c \in Cycles :
            /\ pc[c] # Rejected
            /\ log[c].seen \cap NonAuthFailures # {} =>
                   /\ pc[c] = Resolved
                   /\ Len(log[c].banners) = 1
                   /\ log[c].banners[1] \in ErrorMessages
            /\ (pc[c] = Idle /\ \A d \in 1..(c - 1) : pc[d] # Idle) =>
                   ENABLED fetchDataStart(c))
    /\ [][\A c \in Cycles :
            (log'[c].seen \cap NonAuthFailures # {} /\ log[c].seen \cap NonAuthFailures = {}) =>
                /\ errorContainer' \in ErrorMessages
                /\ errorContainer' = log'[c].banners[1]
                /\ ~powerCardSpinner' /\ ~yieldCardSpinner']_vars

\* the first cycle failed on a non-auth error; the second, started after it,
\* cleared the banner and ran all three fetches to the timestamp
C3_Witness ==
    /\ MaxCycles >= 2
    /\ pc[1] = Resolved /\ log[1].seen \cap NonAuthFailures # {}
    /\ pc[2] = Resolved /\ log[2].banners = <<>>
    /\ errorContainer = "" /\ timestamp = 2

\* C4: each sink shows what the last completed write put there, whichever
\* cycle made it; a step of one cycle never moves another cycle, and a cycle
\* in flight can always take its next step.
C4_LastWriteWins ==
    /\ [](/\ applied[1] # Undef =>
                /\ powerValue = Num(MathRound(OrZero(applied[1].data.power), PowerScale))
                /\ powerGaugeChart = GaugeBands(powerValue.v)
          /\ applied[2] # Undef =>
                /\ Len(powerTimeSeriesChart.data) = Len(applied[2].data.items)
                /\ powerTimeSeriesChart.labels =
                       [i \in 1..Len(applied[2].data.items) |->
                           TimeLabel(sortedData(applied[2].data)[i].TimeStamp)]
          /\ applied[3] # Undef =>
                /\ yearlyYieldChart.labels =
                       [i \in 1..Len(normalized(applied[3].data)) |->
                           SortByYear(normalized(applied[3].data))[i].year]
                /\ yearlyYieldChart.datasets[1].data =
                       Differences(SortByYear(normalized(applied[3].data)))
          /\ \A c \in Cycles :
                /\ pc[c].state = "fetch" =>
                       ENABLED (\E o \in FetchOutcomes : fetchSettles(c, pc[c].res, o))
                /\ pc[c].state = "json" =>
                       ENABLED (\E b \in Bodies(pc[c].res) : jsonSettles(c, pc[c].res, b)))
    /\ [][\A c, d \in Cycles : (c # d /\ pc'[c] # pc[c]) => pc'[d] = pc[d]]_vars

\* the second cycle ran from start to end while the first was in flight, and
\* both ended without a failure; the gauge and the yearly series show the
\* second cycle's write, the time series and the timestamp the first cycle's
C4_Witness ==
    /\ MaxCycles >= 2
    /\ pc[1] = Resolved /\ pc[2] = Resolved
    /\ log[1].seen = {} /\ log[2].seen = {}
    /\ applied[1] # Undef /\ applied[2] # Undef /\ applied[3] # Undef
    /\ applied[1].by = 2 /\ applied[2].by = 1 /\ applied[3].by = 2
    /\ timestamp = 1

inFlight(c) == pc[c].state \in {"fetch", "json"}
Loading(overlay) == overlay.active /\ overlay.content # "no-data"

\* C15 as stated: when a cycle has ended and no other cycle is in flight, the
\* two card spinners are inactive and each chart overlay is inactive or shows
\* the no-data placeholder, however the cycle ended.
C15_IndicatorsResolved ==
    ((\E c \in Cycles : settled(c)) /\ (\A c \in Cycles : ~inFlight(c))) =>
        /\ ~powerCardSpinner /\ ~yieldCardSpinner
        /\ ~Loading(powerChartOverlay)
        /\ ~Loading(yearlyChartOverlay)

\* the part of C15 that holds: the card spinners are off whenever no cycle is
\* in flight
C15_CardSpinnersResolved ==
    (\A c \in Cycles : ~inFlight(c)) => (~powerCardSpinner /\ ~yieldCardSpinner)

-----------------------------------------------------------------------------
(* Properties of the gateway (SpecGateway) *)

asked == exchange # Undef
Configured(secret) == secret # Undef /\ secret.chunks # <<>>

\* the Authorization header with a leading 'Bearer ' taken off
TokenOf(authorization) ==
    IF authorization = Undef THEN Undef
    ELSE IF Len(authorization.chunks) > 0 /\ Head(authorization.chunks) = Bearer
    THEN Text(Tail(authorization.chunks))
    ELSE authorization

Allowed(req, secret) == ~Configured(secret) \/ TokenOf(req.authorization) = secret

\* the response is the proxied one: the caller's header went upstream with the
\* same path, the upstream's status and JSON came back, 500 when upstream threw
Proxied(e) ==
    /\ e.res.by = "proxy"
    /\ e.res.forwarded.path = e.req.path
    /\ ~Falsy(e.req.authorization) =>
           e.res.forwarded.headers.Authorization = e.req.authorization
    /\ IF e.upstream = UpstreamThrows
       THEN e.res.status = 500 /\ e.res.body = "error: Failed to fetch"
       ELSE e.upstream.json =>
                e.res.status = e.upstream.status /\ e.res.body = "upstream JSON"

\* C16 as stated: an allowed request to any of the three paths a refresh cycle
\* asks for is answered by a proxy route that forwards the Authorization header
\* and relays the upstream's status and JSON (500 when the upstream fetch throws).
C16_ResourcesProxied ==
    (asked /\ exchange.req.path \in ApiPaths /\ Allowed(exchange.req, exchange.secret)) =>
        Proxied(exchange)

\* the part of C16 that holds: the paths that have a route are proxied so
C16_RoutedResourcesProxied ==
    (asked /\ exchange.req.path \in {"/api/current", "/api/today"}
           /\ Allowed(exchange.req, exchange.secret)) =>
        Proxied(exchange)

\* C17 as stated: with a secret configured, a request to a path that is not
\* public whose token is not the secret is answered 401 by the gate; /auth-check
\* answers 200 exactly when the token is the secret; with no secret configured
\* no request is turned away.
C17_SharedSecretGate ==
    asked =>
        LET req == exchange.req
            secret == exchange.secret
            res == exchange.res
            token == TokenOf(req.authorization)
        IN  /\ (Configured(secret) /\ req.path \notin publicPaths /\ token # secret) =>
                    res.by = "gate" /\ res.status = 401
            /\ (Configured(secret) /\ req.path = "/auth-check") =>
                    (res.status = 200 <=> token = secret)
            /\ ~Configured(secret) => res.status # 401 \/ res.by = "proxy"

\* what the gate does: only the path '/' is gated; and a header that holds
\* 'Bearer ' anywhere passes when the rest is the secret
C17_RootGated ==
    asked =>
        LET req == exchange.req
            secret == exchange.secret
            res == exchange.res
            passes == req.authorization # Undef
                      /\ Text(ReplaceFirst(req.authorization.chunks, Bearer)) = secret
        IN  /\ (Configured(secret) /\ req.path = "/" /\ ~passes) =>
                    res.by = "gate" /\ res.status = 401
            /\ (Configured(secret) /\ req.path = "/auth-check") =>
                    (res.status = 200 <=> passes)
            /\ req.path # "/" => res.by # "gate"
            /\ ~Configured(secret) => res.by # "gate"

====
